---- MODULE Spec2Model ----
(***************************************************************************)
(* Regime classifier and risk-budget allocator of the QuantConnect         *)
(* portfolio algorithms main.py, ceiling_risk_cap.py and DCA.py (class     *)
(* RegimeRiskBudgetAllocator in each file).                                *)
(*                                                                         *)
(* Representation.  Python floats are modelled as exact rationals, a pair  *)
(* <<n, d>> with d > 0 in lowest terms.  An optional value (Python None)   *)
(* is the empty sequence <<>>; a present value x is <<x>>.  Prices,        *)
(* equity, RSI and realized-volatility observations are integers.          *)
(* RealizedVol20 takes logarithms and a square root, which have no exact   *)
(* counterpart here: its availability is modelled exactly and its value    *)
(* is any member of RvLevels (all positive: the windows explored are never *)
(* flat over 21 closes).                                                   *)
(***************************************************************************)
EXTENDS Integers, Sequences, FiniteSets, TLC

VARIABLES
    variant,                     \* which of the three files is deployed
    feed,                        \* the input streams the host delivers in this run
    day,                         \* trading days elapsed since the start date
    market,                      \* today's SPY bar: close, indicator values, volatility
    indReady,                    \* which indicators report IsReady
    equity,                      \* Portfolio.TotalPortfolioValue
    close_window, vol_window, days_below_sma50,
    regime, peak_equity, current_dd,
    last_rebalance_week, last_regime, last_effective_pct,
    last_spy_weight_multiplier,
    halted,                      \* an uncaught exception ended the algorithm
    updated,                     \* today's scheduled UpdateSignals has run
    rebalances,                  \* Rebalance invocations made today
    extra,                       \* Rebalance invocations made off the schedule
    regime_at_open,              \* regime when the trading day began
    emits_this_week,             \* SetHoldings calls in this calendar week
    aborts_this_week,            \* Rebalance calls this week ended by equity <= 0
    evaluation,                  \* the latest rebalance evaluation, if any
    obs                          \* what the last handler invocation saw and did

vars == <<variant, feed, day, market, indReady, equity,
          close_window, vol_window, days_below_sma50, regime, peak_equity,
          current_dd, last_rebalance_week, last_regime, last_effective_pct,
          last_spy_weight_multiplier, halted, updated, rebalances, extra,
          regime_at_open, emits_this_week, aborts_this_week, evaluation, obs>>

-----------------------------------------------------------------------------
(* Bounds of the exploration *)

MaxDays == 3
DaysPerWeek == 2
MaxExtra == 1
DrawdownSteps == 200
LongRun == 22

(* Program constants *)

Capacity == 252
SeedHistory == 252
MinCloses == 21
ReturnDays == 20
MedianMin == 100
WeeksPerYear == 52
StartWeek == 53
InitialWeek == -1
Leverage == 20
RsiStress == 40
RsiAlert == 45
RsiCalm == 50
DaysStress == 4
DaysAlert == 2

-----------------------------------------------------------------------------
(* Optional values *)

None == <<>>
Some(x) == <<x>>
Val(o) == o[1]

(* Exact rational arithmetic in place of float arithmetic *)

RECURSIVE GCD(_, _)
GCD(a, b) == IF b = 0 THEN a ELSE GCD(b, a % b)

AbsInt(a) == IF a < 0 THEN -a ELSE a

Rat(n, d) ==
    LET s == IF d < 0 THEN -1 ELSE 1
        g == GCD(AbsInt(n), AbsInt(d))
    IN  <<(s * n) \div g, (s * d) \div g>>

RInt(n) == <<n, 1>>
RAdd(a, b) == Rat(a[1] * b[2] + b[1] * a[2], a[2] * b[2])
RSub(a, b) == Rat(a[1] * b[2] - b[1] * a[2], a[2] * b[2])
RMul(a, b) == Rat(a[1] * b[1], a[2] * b[2])
RDiv(a, b) == Rat(a[1] * b[2], a[2] * b[1])
RLt(a, b) == a[1] * b[2] < b[1] * a[2]
RLe(a, b) == a[1] * b[2] <= b[1] * a[2]
RAbs(a) == <<AbsInt(a[1]), a[2]>>
RMax(a, b) == IF RLt(a, b) THEN b ELSE a
RMin(a, b) == IF RLt(b, a) THEN b ELSE a

-----------------------------------------------------------------------------
(* Configuration set in Initialize *)

order == <<"Calm", "Alert", "Stress", "Panic">>
Regimes == {"Calm", "Alert", "Stress", "Panic"}
Index(r) == CHOOSE i \in 1..4 : order[i] = r

margin_budget_by_regime ==
    [r \in Regimes |->
        CASE r = "Calm" -> Rat(12, 100)
          [] r = "Alert" -> Rat(9, 100)
          [] r = "Stress" -> Rat(6, 100)
          [] r = "Panic" -> Rat(4, 100)]

calm_min_effective_margin_pct == Rat(7, 100)

weights ==
    [r \in Regimes |->
        CASE r = "Calm" -> [spy |-> Rat(55, 100), tlt |-> Rat(35, 100), gld |-> Rat(10, 100)]
          [] r = "Alert" -> [spy |-> Rat(45, 100), tlt |-> Rat(35, 100), gld |-> Rat(10, 100)]
          [] r = "Stress" -> [spy |-> Rat(30, 100), tlt |-> Rat(35, 100), gld |-> Rat(10, 100)]
          [] r = "Panic" -> [spy |-> Rat(20, 100), tlt |-> Rat(30, 100), gld |-> Rat(10, 100)]]

dd_buffer == Rat(12, 100)
dd_target == Rat(25, 100)
min_risk_scale == Rat(20, 100)

VolPanic == Rat(160, 100)
VolStress == Rat(140, 100)
VolAlert == Rat(125, 100)
VolCalm == Rat(115, 100)
CrashReturn == Rat(-8, 100)
GateTolerance == Rat(1, 100)
BrakeStretch == Rat(105, 100)
(* x > 1e-9 for a fraction x = n/d: n * 10^9 > d, computed without overflow *)
AboveEpsilon(x) == x[1] > x[2] \div 1000000000
BrakeMultiplier == Rat(85, 100)

-----------------------------------------------------------------------------
(* deque(maxlen=252).append: the oldest entry is evicted when full *)

AppendUnbounded(w, x) == Append(w, x)   \* a window that never evicts

Append252(w, x) ==
    IF Len(w) < Capacity THEN Append(w, x) ELSE Append(Tail(w), x)

Last(w, k) == w[Len(w) - k + 1]      \* Python's w[-k]

(* Ingestion that appends whatever close it is given *)
PushCloseAny(cw, c) == Append252(cw, c)

(* Ingestion of the day's close: a non-positive close is dropped *)
PushClose(cw, c) == IF c > 0 THEN Append252(cw, c) ELSE cw

(* RealizedVol20: None below 21 closes or with a non-positive price among  *)
(* the last 21; otherwise the realized volatility v of the price path.     *)
RealizedVol20(cw, v) ==
    IF Len(cw) < MinCloses THEN None
    ELSE IF \E k \in 1..MinCloses : Last(cw, k) <= 0 THEN None
    ELSE Some(v)

(* ReturnNDays(n): closes[-1] / closes[-(n+1)] - 1, None when unavailable *)
ReturnNDays(cw, n) ==
    IF Len(cw) < n + 1 THEN None
    ELSE IF Last(cw, n + 1) <= 0 THEN None
    ELSE Some(RSub(Rat(Last(cw, 1), Last(cw, n + 1)), RInt(1)))

(* np.median: the middle entry in sorted order, or the mean of the two     *)
(* middle entries when the length is even.                                 *)
Kth(w, k) ==
    CHOOSE v \in {w[i] : i \in DOMAIN w} :
        /\ Cardinality({i \in DOMAIN w : w[i] < v}) < k
        /\ Cardinality({i \in DOMAIN w : w[i] <= v}) >= k

Median(w) ==
    LET n == Len(w)
    IN  IF n % 2 = 1 THEN RInt(Kth(w, (n + 1) \div 2))
        ELSE Rat(Kth(w, n \div 2) + Kth(w, n \div 2 + 1), 2)

(* vol_ratio of main.py and ceiling_risk_cap.py: the trailing median needs *)
(* 100 observations, and a non-positive median falls back to rv20 itself.  *)
VolRatio(vw, rv20) ==
    LET m0 == IF Len(vw) >= MedianMin THEN Median(vw) ELSE RInt(rv20)
        median_vol == IF RLe(m0, RInt(0)) THEN RInt(rv20) ELSE m0
    IN  RDiv(RInt(rv20), median_vol)

(* vol_ratio of DCA.py: always the median, 1.0 when it is not positive *)
VolRatioDCA(vw, rv20) ==
    LET median_vol == Median(vw)
    IN  IF RLt(RInt(0), median_vol) THEN RDiv(RInt(rv20), median_vol) ELSE RInt(1)

(* The regime rules: the if/elif chain of UpdateSignals *)
PanicRule(vol_ratio, dd20) == RLt(VolPanic, vol_ratio) \/ RLe(dd20, CrashReturn)
StressRule(vol_ratio, dbs, r) ==
    RLe(VolStress, vol_ratio) /\ dbs >= DaysStress /\ r < RsiStress
AlertRule(vol_ratio, dbs, r) ==
    RLe(VolAlert, vol_ratio) /\ dbs >= DaysAlert /\ r < RsiAlert
CalmRule(vol_ratio, c, s50, r) ==
    RLt(vol_ratio, VolCalm) /\ c >= s50 /\ r > RsiCalm

(* The rule chain with the Stress rule tested before the Panic rule *)
NewRegimeStressFirst(current, vol_ratio, dd20, dbs, r, c, s50) ==
    IF StressRule(vol_ratio, dbs, r) THEN "Stress"
    ELSE IF PanicRule(vol_ratio, dd20) THEN "Panic"
    ELSE IF AlertRule(vol_ratio, dbs, r) THEN "Alert"
    ELSE IF CalmRule(vol_ratio, c, s50, r) THEN "Calm"
    ELSE current

(* The rule chain falling back to Calm when no rule matches *)
NewRegimeDefaultCalm(current, vol_ratio, dd20, dbs, r, c, s50) ==
    IF PanicRule(vol_ratio, dd20) THEN "Panic"
    ELSE IF StressRule(vol_ratio, dbs, r) THEN "Stress"
    ELSE IF AlertRule(vol_ratio, dbs, r) THEN "Alert"
    ELSE "Calm"

NewRegime(current, vol_ratio, dd20, dbs, r, c, s50) ==
    IF PanicRule(vol_ratio, dd20) THEN "Panic"
    ELSE IF StressRule(vol_ratio, dbs, r) THEN "Stress"
    ELSE IF AlertRule(vol_ratio, dbs, r) THEN "Alert"
    ELSE IF CalmRule(vol_ratio, c, s50, r) THEN "Calm"
    ELSE current

(* ClampTier without the slow re-risking branch *)
ClampTierNoSlow(current, proposed) == proposed

(* ClampTier stepping up to two tiers at a time on improvement *)
ClampTierTwoTiers(current, proposed) ==
    LET ci == Index(current)
        pi == Index(proposed)
    IN  IF pi > ci THEN proposed
        ELSE IF pi < ci - 2 THEN order[ci - 2]
        ELSE proposed

(* ClampTier: fast de-risking, slow re-risking *)
ClampTier(current, proposed) ==
    LET ci == Index(current)
        pi == Index(proposed)
    IN  IF pi > ci THEN proposed
        ELSE IF pi < ci - 1 THEN order[ci - 1]
        ELSE proposed

(* The interpolation carried on below the floor *)
RiskScaleNoFloor(dd) ==
    IF RLe(dd, dd_buffer) THEN RInt(1)
    ELSE RSub(RInt(1), RMul(RDiv(RSub(dd, dd_buffer), RSub(dd_target, dd_buffer)),
                            RSub(RInt(1), min_risk_scale)))

(* RiskScaleFromDrawdown of main.py *)
RiskScaleFromDrawdown(dd) ==
    IF RLe(dd, dd_buffer) THEN RInt(1)
    ELSE IF RLe(dd_target, dd) THEN min_risk_scale
    ELSE LET span == RSub(dd_target, dd_buffer)
         IN  IF RLe(span, RInt(0)) THEN min_risk_scale
             ELSE LET t == RDiv(RSub(dd, dd_buffer), span)
                      scale == RSub(RInt(1), RMul(t, RSub(RInt(1), min_risk_scale)))
                  IN  RMax(min_risk_scale, RMin(RInt(1), scale))

(* RiskScaleFromDrawdown of DCA.py *)
RiskScaleFromDrawdownDCA(dd) ==
    IF RLe(dd, dd_buffer) THEN RInt(1)
    ELSE IF RLe(dd_target, dd) THEN min_risk_scale
    ELSE LET t == RDiv(RSub(dd, dd_buffer), RSub(dd_target, dd_buffer))
         IN  RMax(min_risk_scale, RSub(RInt(1), RMul(t, RSub(RInt(1), min_risk_scale))))

-----------------------------------------------------------------------------
(* The host: calendar, market data and account *)

Variants == {"main", "ceiling", "dca"}

Bar(c, s50, s200, r, v) ==
    [close |-> c, sma50 |-> s50, sma200 |-> s200, rsi |-> r, vol20 |-> v]

CalmBar == Bar(100, 95, 100, 55, 12)       \* quiet, above the 50-day average
ExtendedBar == Bar(100, 95, 90, 55, 12)    \* quiet, far above the 200-day average
DriftBar == Bar(100, 105, 100, 42, 14)     \* volatility 1.17 x median
WeakBar == Bar(100, 105, 100, 42, 18)      \* volatility 1.5 x median, RSI 42
StressBar == Bar(100, 105, 100, 35, 18)    \* volatility 1.5 x median, RSI 35
VolBar == Bar(100, 105, 100, 35, 20)       \* volatility 1.67 x median
CrashBar == Bar(90, 105, 100, 35, 18)      \* 10% below the close 20 days back
BadBar == Bar(0, 95, 100, 55, 12)          \* a non-positive close

(* Input profiles: what the market and the account can do from day to day. *)
(* The profile "dormant" is an account that may sit at zero equity for      *)
(* more than a year in a quiet market; it is explored on its own in         *)
(* SpecCalendar.                                                            *)
Feeds == {"regime", "hazard", "budget", "drawdown", "steady", "warmup"}

Markets(f) ==
    CASE f = "regime" -> {CalmBar, ExtendedBar, DriftBar, WeakBar, StressBar,
                          VolBar, CrashBar}
      [] f = "hazard" -> {CalmBar, VolBar, BadBar}
      [] f = "budget" -> {CalmBar}
      [] f = "drawdown" -> {CalmBar, VolBar}
      [] f = "steady" -> {CrashBar}
      [] f = "warmup" -> {CalmBar, CrashBar}
      [] f = "dormant" -> {CalmBar}

Equities(f) ==
    CASE f = "regime" -> {100}
      [] f = "hazard" -> {0, 100}
      [] f = "budget" -> {86, 87, 100}
      [] f = "drawdown" -> {80, 100}
      [] f = "steady" -> {100}
      [] f = "warmup" -> {100}
      [] f = "dormant" -> {0, 100}

SeedLengths(f) ==
    CASE f = "regime" -> {SeedHistory}
      [] f = "hazard" -> {SeedHistory}
      [] f = "budget" -> {SeedHistory}
      [] f = "drawdown" -> {SeedHistory}
      [] f = "steady" -> {SeedHistory}
      [] f = "warmup" -> {0, ReturnDays}
      [] f = "dormant" -> {SeedHistory}

Readiness(f) ==
    CASE f = "regime" -> {"all"}
      [] f = "hazard" -> {"all"}
      [] f = "budget" -> {"all"}
      [] f = "drawdown" -> {"all"}
      [] f = "steady" -> {"all"}
      [] f = "warmup" -> {"none", "sma50rsi", "all"}
      [] f = "dormant" -> {"all"}

Horizon(f) ==
    CASE f = "regime" -> MaxDays
      [] f = "hazard" -> MaxDays
      [] f = "budget" -> MaxDays + 1
      [] f = "drawdown" -> MaxDays
      [] f = "steady" -> LongRun
      [] f = "warmup" -> MaxDays
      [] f = "dormant" -> (WeeksPerYear + 1) * DaysPerWeek + 1

SeedVol == 12

close == market.close
sma50 == market.sma50
sma200 == market.sma200
rsi == market.rsi

(* Day 0 is the start date, a Friday; Friday ends each week of trading days *)
IsFriday(d) == (d + DaysPerWeek - 1) % DaysPerWeek = DaysPerWeek - 1
CalendarWeek(d) == (d + DaysPerWeek - 1) \div DaysPerWeek

(* self.Time.isocalendar()[1]: the start date lies in ISO week 53 of 2015, *)
(* and the years 2016 to 2019 that follow have 52 ISO weeks each.          *)
WeekOfYear(d) ==
    IF CalendarWeek(d) = 0 THEN StartWeek
    ELSE ((CalendarWeek(d) - 1) % WeeksPerYear) + 1

(* SeedCloseAndVolWindows on a history of n closes: the closes, and one    *)
(* rolling 20-return volatility per 21 consecutive closes.                 *)
SeedCloses(n) == [i \in 1..n |-> 100 + (i % 2)]
SeedVols(n) == IF n >= MinCloses THEN [i \in 1..(n - ReturnDays) |-> SeedVol] ELSE <<>>

Idle(op) ==
    [op |-> op, before |-> regime, evaluated |-> FALSE, vol_ratio |-> None,
     dd20 |-> None, new_regime |-> None, outcome |-> "none", targets |-> None]

Init ==
    /\ variant \in Variants
    /\ feed \in Feeds
    /\ day = 0
    /\ market \in Markets(feed)
    /\ indReady \in Readiness(feed)
    /\ equity \in Equities(feed)
    /\ \E n \in SeedLengths(feed) :
          /\ close_window = SeedCloses(n)
          /\ vol_window = SeedVols(n)
    /\ days_below_sma50 = 0
    /\ regime = "Calm"
    /\ peak_equity = None
    /\ current_dd = RInt(0)
    /\ last_rebalance_week = InitialWeek
    /\ last_regime = "Calm"
    /\ last_effective_pct = None
    /\ last_spy_weight_multiplier = None
    /\ halted = FALSE
    /\ updated = FALSE
    /\ rebalances = 0
    /\ extra = 0
    /\ regime_at_open = "Calm"
    /\ emits_this_week = 0
    /\ aborts_this_week = 0
    /\ evaluation = None
    /\ obs = [op |-> "Initialize", before |-> "Calm", evaluated |-> FALSE,
              vol_ratio |-> None, dd20 |-> None, new_regime |-> None,
              outcome |-> "none", targets |-> None]

(* Indicators become ready in the order RSI(14), SMA(50), SMA(200) and stay ready *)
ReadyAfter(r) ==
    CASE r = "none" -> {"none", "sma50rsi"}
      [] r = "sma50rsi" -> {"sma50rsi", "all"}
      [] r = "all" -> {"all"}

(* The next trading day's bar: every scheduled callback of today has run *)
NewDay ==
    /\ ~halted
    /\ updated
    /\ IsFriday(day) /\ variant # "ceiling" => rebalances >= 1
    /\ day + 1 < Horizon(feed)
    /\ day' = day + 1
    /\ market' \in Markets(feed)
    /\ indReady' \in ReadyAfter(indReady)
    /\ equity' \in Equities(feed)
    /\ updated' = FALSE
    /\ rebalances' = 0
    /\ regime_at_open' = regime
    /\ emits_this_week' = IF CalendarWeek(day + 1) = CalendarWeek(day) THEN emits_this_week ELSE 0
    /\ aborts_this_week' = IF CalendarWeek(day + 1) = CalendarWeek(day) THEN aborts_this_week ELSE 0
    /\ obs' = Idle("NewDay")
    /\ UNCHANGED <<variant, feed, close_window, vol_window, days_below_sma50, regime,
                   peak_equity, current_dd, last_rebalance_week, last_regime,
                   last_effective_pct, last_spy_weight_multiplier, halted, extra,
                   evaluation>>

-----------------------------------------------------------------------------
(* main.py *)

(* Peak tracking that follows the equity down *)
PeakAfterLatest(peak, eq) == eq

(* Peak equity and drawdown tracking of UpdateSignals *)
PeakAfter(peak, eq) ==
    LET p == IF peak = None THEN eq ELSE Val(peak)
    IN  IF eq > p THEN eq ELSE p

Drawdown(peak, eq) ==
    IF peak <= 0 THEN RInt(0) ELSE RSub(RInt(1), Rat(eq, peak))

(* The readiness test without the SMA(200) *)
IndicatorsReadyNoSma200 == indReady # "none"

IndicatorsReady == indReady = "all"

(* The state UpdateSignals leaves *)
UpdateSignalsResult ==
    LET cw == PushClose(close_window, close)
        peak == PeakAfter(peak_equity, equity)
        dd == Drawdown(peak, equity)
        early == [cw |-> cw, peak |-> Some(peak), dd |-> dd,
                  dbs |-> days_below_sma50, vw |-> vol_window, regime |-> regime,
                  evaluated |-> FALSE, vol_ratio |-> None, dd20 |-> None,
                  new_regime |-> None]
    IN  IF ~IndicatorsReady THEN early
        ELSE LET dbs == IF close < sma50 THEN days_below_sma50 + 1 ELSE 0
                 rv20 == RealizedVol20(cw, market.vol20)
                 dd20 == ReturnNDays(cw, ReturnDays)
             IN  IF rv20 = None \/ dd20 = None THEN [early EXCEPT !.dbs = dbs]
                 ELSE LET vw == Append252(vol_window, Val(rv20))
                          vol_ratio == VolRatio(vw, Val(rv20))
                          new_regime == NewRegime(regime, vol_ratio, Val(dd20), dbs,
                                                  rsi, close, sma50)
                      IN  [cw |-> cw, peak |-> Some(peak), dd |-> dd, dbs |-> dbs,
                           vw |-> vw, regime |-> ClampTier(regime, new_regime),
                           evaluated |-> TRUE, vol_ratio |-> Some(vol_ratio),
                           dd20 |-> dd20, new_regime |-> Some(new_regime)]


Seen(op, u, outcome, targets) ==
    [op |-> op, before |-> regime, evaluated |-> u.evaluated,
     vol_ratio |-> u.vol_ratio, dd20 |-> u.dd20, new_regime |-> u.new_regime,
     outcome |-> outcome, targets |-> targets]

(* The daily scheduled callback *)
UpdateSignals ==
    /\ ~halted /\ variant = "main" /\ ~updated
    /\ LET u == UpdateSignalsResult
       IN  /\ close_window' = u.cw
           /\ peak_equity' = u.peak
           /\ current_dd' = u.dd
           /\ days_below_sma50' = u.dbs
           /\ vol_window' = u.vw
           /\ regime' = u.regime
           /\ obs' = Seen("UpdateSignals", u, "none", None)
    /\ updated' = TRUE
    /\ UNCHANGED <<variant, feed, day, market, indReady, equity,
                   last_rebalance_week, last_regime, last_effective_pct,
                   last_spy_weight_multiplier, halted, rebalances, extra,
                   regime_at_open, emits_this_week, aborts_this_week, evaluation>>

(* The effective margin percentage without the Calm floor *)
EffectivePctNoFloor(r, risk_scale) == RMul(margin_budget_by_regime[r], risk_scale)

(* Effective margin percentage: drawdown scaling, then the Calm floor and ceiling *)
EffectivePct(r, risk_scale) ==
    LET base_pct == margin_budget_by_regime[r]
        scaled == RMul(base_pct, risk_scale)
    IN  IF r = "Calm"
        THEN RMin(RMax(scaled, calm_min_effective_margin_pct), base_pct)
        ELSE scaled

(* The brake applied in every regime *)
SpyWeightMultiplierAnyRegime(r, c, s200) ==
    IF s200 > 0 /\ RLt(RMul(BrakeStretch, RInt(s200)), RInt(c))
    THEN BrakeMultiplier ELSE RInt(1)

(* Late-cycle Calm brake *)
SpyWeightMultiplier(r, c, s200) ==
    IF r = "Calm" /\ s200 > 0 /\ RLt(RMul(BrakeStretch, RInt(s200)), RInt(c))
    THEN BrakeMultiplier ELSE RInt(1)

(* A week guard that never suppresses *)
SameWeekNever(week, last_week) == FALSE

(* The week guard of Rebalance *)
SameWeek(week, last_week) == week = last_week

(* A gate that treats any change of the effective budget as material *)
GateSkipsExact(r, effective_pct, mult, last_r, last_pct, last_mult) ==
    /\ r = last_r
    /\ last_pct # None /\ effective_pct = Val(last_pct)
    /\ last_mult # None /\ mult = Val(last_mult)

(* A gate with twice the tolerance on the effective budget *)
GateSkipsWide(r, effective_pct, mult, last_r, last_pct, last_mult) ==
    /\ r = last_r
    /\ last_pct # None
    /\ RLt(RAbs(RSub(effective_pct, Val(last_pct))), RMul(RInt(2), GateTolerance))
    /\ last_mult # None /\ mult = Val(last_mult)

(* The conditional rebalance gate: TRUE when the evaluation is skipped *)
GateSkips(r, effective_pct, mult, last_r, last_pct, last_mult) ==
    LET effective_changed ==
            \/ last_pct = None
            \/ RLe(GateTolerance, RAbs(RSub(effective_pct, Val(last_pct))))
        regime_changed == r # last_r
        spy_mult_changed ==
            \/ last_mult = None
            \/ AboveEpsilon(RAbs(RSub(mult, Val(last_mult))))
    IN  ~(regime_changed \/ effective_changed \/ spy_mult_changed)

(* Every asset given the whole margin budget *)
TargetValuesFullBudget(w, margin_budget) ==
    [spy |-> RMul(margin_budget, RInt(Leverage)),
     tlt |-> RMul(margin_budget, RInt(Leverage)),
     gld |-> RMul(margin_budget, RInt(Leverage))]

(* Margin allocations converted to notional values using leverage *)
TargetValues(w, margin_budget) ==
    [spy |-> RMul(RMul(w.spy, margin_budget), RInt(Leverage)),
     tlt |-> RMul(RMul(w.tlt, margin_budget), RInt(Leverage)),
     gld |-> RMul(RMul(w.gld, margin_budget), RInt(Leverage))]

(* Target fractions handed to SetHoldings *)
Targets(r, effective_pct, mult, eq) ==
    LET margin_budget == RMul(RInt(eq), effective_pct)
        w == [weights[r] EXCEPT !.spy = RMul(@, mult)]
        targets_value == TargetValues(w, margin_budget)
    IN  [spy |-> RDiv(targets_value.spy, RInt(eq)),
         tlt |-> RDiv(targets_value.tlt, RInt(eq)),
         gld |-> RDiv(targets_value.gld, RInt(eq))]

(* The marker an invocation aborted for non-positive equity would leave if *)
(* it were written before the equity check                                  *)
AbortedWeekMarked(week, last_week) == week

(* The marker an invocation aborted for non-positive equity leaves *)
AbortedWeek(week, last_week) == last_week

(* A gate-skipped evaluation that leaves the week unmarked *)
SkippedWeekUnmarked(week, last_week) == last_week

(* The marker a gate-skipped evaluation leaves *)
SkippedWeek(week, last_week) == week

(* What Rebalance decides once UpdateSignals has left regime r and drawdown dd *)
RebalanceResult(r, dd) ==
    LET week == WeekOfYear(day)
        effective_pct == EffectivePct(r, RiskScaleFromDrawdown(dd))
        s200 == IF indReady = "all" THEN sma200 ELSE close
        mult == SpyWeightMultiplier(r, close, s200)
        unchanged == [outcome |-> "none", week |-> last_rebalance_week, last_regime |-> last_regime,
                      pct |-> last_effective_pct, mult |-> last_spy_weight_multiplier,
                      targets |-> None, evaluation |-> evaluation]
        this == Some([regime |-> r, effective_pct |-> effective_pct,
                      spy_weight_multiplier |-> mult])
    IN  IF SameWeek(week, last_rebalance_week)
        THEN [unchanged EXCEPT !.outcome = "suppressed"]
        ELSE IF equity <= 0
        THEN [unchanged EXCEPT !.outcome = "no_equity",
                               !.week = AbortedWeek(week, last_rebalance_week)]
        ELSE IF GateSkips(r, effective_pct, mult, last_regime, last_effective_pct,
                          last_spy_weight_multiplier)
        THEN [unchanged EXCEPT !.outcome = "skipped",
                               !.week = SkippedWeek(week, last_rebalance_week),
                               !.evaluation = this]
        ELSE [outcome |-> "emitted", week |-> week, last_regime |-> r,
              pct |-> Some(effective_pct), mult |-> Some(mult),
              targets |-> Some(Targets(r, effective_pct, mult, equity)),
              evaluation |-> this]

(* Rebalance: the Friday callback, which the host may also invoke off schedule *)
OnSchedule == IsFriday(day) /\ rebalances = 0

Rebalance ==
    /\ ~halted /\ variant = "main" /\ updated
    /\ OnSchedule \/ extra < MaxExtra
    /\ LET u == UpdateSignalsResult
           d == RebalanceResult(u.regime, u.dd)
       IN  /\ close_window' = u.cw
           /\ peak_equity' = u.peak
           /\ current_dd' = u.dd
           /\ days_below_sma50' = u.dbs
           /\ vol_window' = u.vw
           /\ regime' = u.regime
           /\ last_rebalance_week' = d.week
           /\ last_regime' = d.last_regime
           /\ last_effective_pct' = d.pct
           /\ last_spy_weight_multiplier' = d.mult
           /\ evaluation' = d.evaluation
           /\ emits_this_week' = emits_this_week + (IF d.outcome = "emitted" THEN 1 ELSE 0)
           /\ aborts_this_week' = aborts_this_week + (IF d.outcome = "no_equity" THEN 1 ELSE 0)
           /\ obs' = Seen("Rebalance", u, d.outcome, d.targets)
    /\ rebalances' = rebalances + 1
    /\ extra' = IF OnSchedule THEN extra ELSE extra + 1
    /\ UNCHANGED <<variant, feed, day, market, indReady, equity,
                   halted, updated, regime_at_open>>

-----------------------------------------------------------------------------
(* ceiling_risk_cap.py: no drawdown governor, no weekly schedule; Rebalance *)
(* is called by UpdateSignals when the regime changed.                      *)

RealizedVol20Plain(cw, v) == IF Len(cw) < MinCloses THEN None ELSE Some(v)

ReturnNDaysPlain(cw, n) ==
    IF Len(cw) < n + 1 THEN None
    ELSE Some(RSub(Rat(Last(cw, 1), Last(cw, n + 1)), RInt(1)))

EffectivePctCeiling(r) ==
    LET base_pct == margin_budget_by_regime[r]
    IN  IF r = "Calm"
        THEN RMin(RMax(base_pct, calm_min_effective_margin_pct), base_pct)
        ELSE base_pct

RebalanceCeilingResult(r) ==
    LET effective_pct == EffectivePctCeiling(r)
        s200 == IF indReady = "all" THEN sma200 ELSE close
        mult == SpyWeightMultiplier(r, close, s200)
        unchanged == [outcome |-> "none", last_regime |-> last_regime,
                      pct |-> last_effective_pct, mult |-> last_spy_weight_multiplier,
                      targets |-> None, evaluation |-> evaluation]
        this == Some([regime |-> r, effective_pct |-> effective_pct,
                      spy_weight_multiplier |-> mult])
    IN  IF equity <= 0
        THEN [unchanged EXCEPT !.outcome = "no_equity"]
        ELSE IF GateSkips(r, effective_pct, mult, last_regime, last_effective_pct,
                          last_spy_weight_multiplier)
        THEN [unchanged EXCEPT !.outcome = "skipped", !.evaluation = this]
        ELSE [outcome |-> "emitted", last_regime |-> r,
              pct |-> Some(effective_pct), mult |-> Some(mult),
              targets |-> Some(Targets(r, effective_pct, mult, equity)),
              evaluation |-> this]

UpdateSignalsCeilingResult ==
    LET cw == PushClose(close_window, close)
        early == [cw |-> cw, dbs |-> days_below_sma50, vw |-> vol_window,
                  regime |-> regime, evaluated |-> FALSE, vol_ratio |-> None,
                  dd20 |-> None, new_regime |-> None]
    IN  IF ~IndicatorsReady THEN early
        ELSE LET dbs == IF close < sma50 THEN days_below_sma50 + 1 ELSE 0
                 rv20 == RealizedVol20Plain(cw, market.vol20)
                 dd20 == ReturnNDaysPlain(cw, ReturnDays)
             IN  IF rv20 = None \/ dd20 = None THEN [early EXCEPT !.dbs = dbs]
                 ELSE LET vw == Append252(vol_window, Val(rv20))
                          vol_ratio == VolRatio(vw, Val(rv20))
                          new_regime == NewRegime(regime, vol_ratio, Val(dd20), dbs,
                                                  rsi, close, sma50)
                      IN  [cw |-> cw, dbs |-> dbs, vw |-> vw,
                           regime |-> ClampTier(regime, new_regime),
                           evaluated |-> TRUE, vol_ratio |-> Some(vol_ratio),
                           dd20 |-> dd20, new_regime |-> Some(new_regime)]

UpdateSignalsCeiling ==
    /\ ~halted /\ variant = "ceiling" /\ ~updated
    /\ LET u == UpdateSignalsCeilingResult
           called == u.regime # regime
           d == RebalanceCeilingResult(u.regime)
       IN  /\ close_window' = u.cw
           /\ days_below_sma50' = u.dbs
           /\ vol_window' = u.vw
           /\ regime' = u.regime
           /\ last_regime' = IF called THEN d.last_regime ELSE last_regime
           /\ last_effective_pct' = IF called THEN d.pct ELSE last_effective_pct
           /\ last_spy_weight_multiplier' =
                  IF called THEN d.mult ELSE last_spy_weight_multiplier
           /\ evaluation' = IF called THEN d.evaluation ELSE evaluation
           /\ emits_this_week' =
                  emits_this_week + (IF called /\ d.outcome = "emitted" THEN 1 ELSE 0)
           /\ aborts_this_week' =
                  aborts_this_week + (IF called /\ d.outcome = "no_equity" THEN 1 ELSE 0)
           /\ obs' = Seen("UpdateSignals", u, IF called THEN d.outcome ELSE "none",
                          IF called THEN d.targets ELSE None)
    /\ updated' = TRUE
    /\ UNCHANGED <<variant, feed, day, market, indReady, equity, peak_equity,
                   current_dd, last_rebalance_week, halted, rebalances, extra,
                   regime_at_open>>

-----------------------------------------------------------------------------
(* DCA.py: weekly rebalance without gate or equity check.  A division by   *)
(* zero raises ZeroDivisionError, which ends the algorithm.                *)

PeakAfterDCA(peak, eq) ==
    IF peak = None THEN eq ELSE IF eq > Val(peak) THEN eq ELSE Val(peak)

UpdateSignalsDCAResult ==
    LET cw == PushClose(close_window, close)
        peak == PeakAfterDCA(peak_equity, equity)
        raised == [cw |-> cw, peak |-> Some(peak), dd |-> current_dd,
                   dbs |-> days_below_sma50, vw |-> vol_window, regime |-> regime,
                   evaluated |-> FALSE, vol_ratio |-> None, dd20 |-> None,
                   new_regime |-> None, raised |-> TRUE]
    IN  IF peak = 0 THEN raised
        ELSE
        LET dd == RSub(RInt(1), Rat(equity, peak))
            early == [raised EXCEPT !.dd = dd, !.raised = FALSE]
        IN  IF ~IndicatorsReady THEN early
            ELSE LET dbs == IF close < sma50 THEN days_below_sma50 + 1 ELSE 0
                     rv20 == RealizedVol20Plain(cw, market.vol20)
                     dd20 == ReturnNDaysPlain(cw, ReturnDays)
                 IN  IF rv20 = None \/ dd20 = None THEN [early EXCEPT !.dbs = dbs]
                     ELSE LET vw == Append252(vol_window, Val(rv20))
                              vol_ratio == VolRatioDCA(vw, Val(rv20))
                              new_regime == NewRegime(regime, vol_ratio, Val(dd20),
                                                      dbs, rsi, close, sma50)
                          IN  [early EXCEPT !.dbs = dbs, !.vw = vw,
                                            !.regime = ClampTier(regime, new_regime),
                                            !.evaluated = TRUE,
                                            !.vol_ratio = Some(vol_ratio),
                                            !.dd20 = dd20,
                                            !.new_regime = Some(new_regime)]

UpdateSignalsDCA ==
    /\ ~halted /\ variant = "dca" /\ ~updated
    /\ LET u == UpdateSignalsDCAResult
       IN  /\ close_window' = u.cw
           /\ peak_equity' = u.peak
           /\ current_dd' = u.dd
           /\ days_below_sma50' = u.dbs
           /\ vol_window' = u.vw
           /\ regime' = u.regime
           /\ halted' = u.raised
           /\ obs' = Seen("UpdateSignals", u, IF u.raised THEN "raised" ELSE "none", None)
    /\ updated' = TRUE
    /\ UNCHANGED <<variant, feed, day, market, indReady, equity,
                   last_rebalance_week, last_regime, last_effective_pct,
                   last_spy_weight_multiplier, rebalances, extra,
                   regime_at_open, emits_this_week, aborts_this_week, evaluation>>

EffectivePctDCA(r, risk_scale) ==
    LET base_pct == margin_budget_by_regime[r]
        scaled == RMul(base_pct, risk_scale)
    IN  IF r = "Calm"
        THEN RMin(RMax(scaled, calm_min_effective_margin_pct), base_pct)
        ELSE scaled

SpyMultDCA(r, c, s200) ==
    IF r = "Calm" /\ RLt(RMul(BrakeStretch, RInt(s200)), RInt(c))
    THEN BrakeMultiplier ELSE RInt(1)

RebalanceDCAResult(r, dd) ==
    LET week == WeekOfYear(day)
        effective_pct == EffectivePctDCA(r, RiskScaleFromDrawdownDCA(dd))
        mult == SpyMultDCA(r, close, sma200)
    IN  IF SameWeek(week, last_rebalance_week)
        THEN [outcome |-> "suppressed", week |-> last_rebalance_week, targets |-> None]
        ELSE IF equity = 0
        THEN [outcome |-> "raised", week |-> last_rebalance_week, targets |-> None]
        ELSE [outcome |-> "emitted", week |-> week,
              targets |-> Some(Targets(r, effective_pct, mult, equity))]

RebalanceDCA ==
    /\ ~halted /\ variant = "dca" /\ updated
    /\ OnSchedule \/ extra < MaxExtra
    /\ LET u == UpdateSignalsDCAResult
           d == IF u.raised
                THEN [outcome |-> "raised", week |-> last_rebalance_week, targets |-> None]
                ELSE RebalanceDCAResult(u.regime, u.dd)
       IN  /\ close_window' = u.cw
           /\ peak_equity' = u.peak
           /\ current_dd' = u.dd
           /\ days_below_sma50' = u.dbs
           /\ vol_window' = u.vw
           /\ regime' = u.regime
           /\ last_rebalance_week' = d.week
           /\ halted' = (d.outcome = "raised")
           /\ emits_this_week' = emits_this_week + (IF d.outcome = "emitted" THEN 1 ELSE 0)
           /\ obs' = Seen("Rebalance", u, d.outcome, d.targets)
    /\ rebalances' = rebalances + 1
    /\ extra' = IF OnSchedule THEN extra ELSE extra + 1
    /\ UNCHANGED <<variant, feed, day, market, indReady, equity, last_regime,
                   last_effective_pct, last_spy_weight_multiplier, updated,
                   regime_at_open, aborts_this_week, evaluation>>

-----------------------------------------------------------------------------
(* The allocator's margin cap.  The variant with short exposure, whose     *)
(* weights can use more margin than the budget, is not among the source    *)
(* files; steps 5 to 7 of the allocator are modelled as specified.         *)

MarginUsage(values) ==
    RDiv(RAdd(RAdd(RAbs(values.spy), RAbs(values.tlt)), RAbs(values.gld)),
         RInt(Leverage))

(* An allocator without the cap *)
CapMarginNever(values, margin_budget) == values

(* Step 7: scale all notional values by marginBudget / totalMargin *)
CapMargin(values, margin_budget) ==
    LET total_margin == MarginUsage(values)
    IN  IF RLt(margin_budget, total_margin)
        THEN [k \in DOMAIN values |->
                 RMul(values[k], RDiv(margin_budget, total_margin))]
        ELSE values

CappedTargets(w, effective_pct, eq) ==
    LET margin_budget == RMul(RInt(eq), effective_pct)
        values == CapMargin(TargetValues(w, margin_budget), margin_budget)
    IN  [k \in DOMAIN values |-> RDiv(values[k], RInt(eq))]

WeightLevels == {Rat(-1, 2), RInt(0), Rat(1, 2), RInt(1)}
StructuralWeights == [spy : WeightLevels, tlt : WeightLevels, gld : WeightLevels]
AllocatorEquities == {50, 100}

InitAllocator ==
    /\ variant = "overlay"
    /\ feed = "allocator"
    /\ day = 0
    /\ market = CalmBar
    /\ indReady = "all"
    /\ equity \in AllocatorEquities
    /\ close_window = SeedCloses(SeedHistory)
    /\ vol_window = SeedVols(SeedHistory)
    /\ days_below_sma50 = 0
    /\ regime \in Regimes
    /\ peak_equity = None
    /\ current_dd = RInt(0)
    /\ last_rebalance_week = InitialWeek
    /\ last_regime = "Calm"
    /\ last_effective_pct = None
    /\ last_spy_weight_multiplier = None
    /\ halted = FALSE
    /\ updated = TRUE
    /\ rebalances = 0
    /\ extra = 0
    /\ regime_at_open = regime
    /\ emits_this_week = 0
    /\ aborts_this_week = 0
    /\ evaluation = None
    /\ \E w \in StructuralWeights :
          obs = [op |-> "Initialize", weights |-> w, outcome |-> "none",
                 targets |-> None]

RebalanceCapped ==
    /\ variant = "overlay" /\ rebalances = 0 /\ equity > 0
    /\ LET effective_pct == margin_budget_by_regime[regime]
       IN  /\ obs' = [op |-> "Rebalance", weights |-> obs.weights,
                      outcome |-> "emitted",
                      targets |-> Some(CappedTargets(obs.weights, effective_pct, equity))]
           /\ last_regime' = regime
           /\ last_effective_pct' = Some(effective_pct)
           /\ evaluation' = Some([regime |-> regime, effective_pct |-> effective_pct,
                                  spy_weight_multiplier |-> RInt(1)])
    /\ last_spy_weight_multiplier' = Some(RInt(1))
    /\ last_rebalance_week' = WeekOfYear(day)
    /\ rebalances' = 1
    /\ emits_this_week' = 1
    /\ UNCHANGED <<variant, feed, day, market, indReady, equity, close_window,
                   vol_window, days_below_sma50, regime, peak_equity, current_dd,
                   halted, updated, extra, regime_at_open, aborts_this_week>>

NextAllocator == RebalanceCapped

SpecAllocator == InitAllocator /\ [][NextAllocator]_vars

-----------------------------------------------------------------------------
(* The drawdown governor on its own: RiskScaleFromDrawdown of main.py and  *)
(* DCA.py applied to every drawdown of a grid over [0, 1].                 *)

Drawdowns == {Rat(k, DrawdownSteps) : k \in 0..DrawdownSteps}

RiskScaleOf(v, dd) ==
    IF v = "dca" THEN RiskScaleFromDrawdownDCA(dd) ELSE RiskScaleFromDrawdown(dd)

InitGovernor ==
    /\ variant \in {"main", "dca"}
    /\ feed = "governor"
    /\ day = 0
    /\ market = CalmBar
    /\ indReady = "all"
    /\ equity = 100
    /\ close_window = SeedCloses(SeedHistory)
    /\ vol_window = SeedVols(SeedHistory)
    /\ days_below_sma50 = 0
    /\ regime = "Calm"
    /\ peak_equity = Some(100)
    /\ current_dd \in Drawdowns
    /\ last_rebalance_week = InitialWeek
    /\ last_regime = "Calm"
    /\ last_effective_pct = None
    /\ last_spy_weight_multiplier = None
    /\ halted = FALSE
    /\ updated = TRUE
    /\ rebalances = 0
    /\ extra = 0
    /\ regime_at_open = "Calm"
    /\ emits_this_week = 0
    /\ aborts_this_week = 0
    /\ evaluation = None
    /\ obs = [op |-> "Initialize", risk_scale |-> None]

Governor ==
    /\ feed = "governor" /\ obs.op = "Initialize"
    /\ obs' = [op |-> "RiskScaleFromDrawdown",
               risk_scale |-> Some(RiskScaleOf(variant, current_dd))]
    /\ UNCHANGED <<variant, feed, day, market, indReady, equity, close_window,
                   vol_window, days_below_sma50, regime, peak_equity, current_dd,
                   last_rebalance_week, last_regime, last_effective_pct,
                   last_spy_weight_multiplier, halted, updated, rebalances, extra,
                   regime_at_open, emits_this_week, aborts_this_week, evaluation>>

NextGovernor == Governor

SpecGovernor == InitGovernor /\ [][NextGovernor]_vars

-----------------------------------------------------------------------------
(* Properties *)

Handlers == {"UpdateSignals", "Rebalance"}
Gate == <<last_regime, last_effective_pct, last_spy_weight_multiplier>>

(* C1: ClampTier returns the proposed regime when it is at most one tier    *)
(* below the current one (or anywhere above it), and the tier just below    *)
(* the current one otherwise, for all 16 pairs; (Calm, Panic) gives Panic   *)
(* and (Panic, Calm) gives Stress.  Every classification of a run leaves    *)
(* the regime the table gives for the regime before and the candidate.      *)
ClampTable(c, p) == IF Index(p) >= Index(c) - 1 THEN p ELSE order[Index(c) - 1]

C1_ClampTierTable ==
    /\ \A c \in Regimes, p \in Regimes : ClampTier(c, p) = ClampTable(c, p)
    /\ ClampTier("Calm", "Panic") = "Panic"
    /\ ClampTier("Panic", "Calm") = "Stress"
    /\ obs.evaluated => regime = ClampTable(obs.before, Val(obs.new_regime))

C1_Witness ==
    /\ obs.evaluated
    /\ obs.before = "Panic" /\ obs.new_regime = Some("Calm") /\ regime = "Stress"

(* C2: in main.py, over a trading day on which only the scheduled callbacks *)
(* run (UpdateSignals daily, Rebalance on Friday), the regime at the end of *)
(* the day is at most one tier below the regime at the start of the day.    *)
ScheduledOnly == rebalances <= (IF IsFriday(day) THEN 1 ELSE 0)

C2_OneTierPerDay ==
    variant = "main" /\ ScheduledOnly => Index(regime) >= Index(regime_at_open) - 1

(* C3: an UpdateSignals call of main.py that classifies with volRatio > 1.60 *)
(* or a 20-day return <= -0.08 leaves the regime Panic, whatever it was and  *)
(* whatever other rules hold.                                                *)
C3_PanicWins ==
    variant = "main" /\ obs.evaluated
        /\ (RLt(Rat(160, 100), Val(obs.vol_ratio)) \/ RLe(Val(obs.dd20), Rat(-8, 100)))
    => regime = "Panic"

C3_Witness ==
    /\ variant = "main" /\ obs.evaluated /\ obs.before = "Calm"
    /\ RLt(Rat(160, 100), Val(obs.vol_ratio))
    /\ RLe(Rat(140, 100), Val(obs.vol_ratio)) /\ days_below_sma50 >= 4 /\ rsi < 40
    /\ regime = "Panic"

(* C4: the candidate regime is that of the first matching rule in the order *)
(* Panic, Stress, Alert, Calm, and the current regime when no rule matches, *)
(* in which case the call leaves the regime unchanged.                      *)
C4_FirstMatch ==
    variant = "main" /\ obs.evaluated =>
        LET vr == Val(obs.vol_ratio)
            panic == RLt(Rat(160, 100), vr) \/ RLe(Val(obs.dd20), Rat(-8, 100))
            stress == RLe(Rat(140, 100), vr) /\ days_below_sma50 >= 4 /\ rsi < 40
            alert == RLe(Rat(125, 100), vr) /\ days_below_sma50 >= 2 /\ rsi < 45
            calm == RLt(vr, Rat(115, 100)) /\ close >= sma50 /\ rsi > 50
            candidate == Val(obs.new_regime)
        IN  /\ panic => candidate = "Panic"
            /\ ~panic /\ stress => candidate = "Stress"
            /\ ~panic /\ ~stress /\ alert => candidate = "Alert"
            /\ ~panic /\ ~stress /\ ~alert /\ calm => candidate = "Calm"
            /\ ~panic /\ ~stress /\ ~alert /\ ~calm =>
                  candidate = obs.before /\ regime = obs.before

C4_Witness ==
    /\ variant = "main" /\ obs.evaluated
    /\ RLe(Rat(115, 100), Val(obs.vol_ratio)) /\ RLt(Val(obs.vol_ratio), Rat(125, 100))
    /\ RLt(Rat(-8, 100), Val(obs.dd20))
    /\ obs.before = "Alert" /\ obs.new_regime = Some("Alert") /\ regime = "Alert"

(* C5: an UpdateSignals call of main.py made while an indicator is not ready *)
(* or while the close window, after the append, holds fewer than 21 closes   *)
(* leaves the regime and the volatility window as they were.                 *)
C5_UnavailableSkips ==
    [][(/\ variant = "main"
        /\ obs'.op \in Handlers
        /\ (indReady # "all" \/ Len(close_window') < 21))
       => (regime' = regime /\ vol_window' = vol_window)]_vars

C5_Witness ==
    /\ variant = "main" /\ obs.op \in Handlers
    /\ indReady = "all" /\ close > 0 /\ Len(close_window) < 21 /\ Len(close_window) > 0
    /\ ~obs.evaluated

(* C6: in main.py at most one Rebalance invocation per calendar week emits  *)
(* targets.                                                                 *)
C6_OneEmissionPerWeek == variant = "main" => emits_this_week <= 1

C6_Witness ==
    /\ variant = "main" /\ emits_this_week = 1
    /\ obs.op = "Rebalance" /\ obs.outcome = "suppressed"

(* C7 as stated: in main.py and ceiling_risk_cap.py a rebalance evaluation  *)
(* with the regime and brake multiplier of the evaluation before it and an  *)
(* effective budget less than 0.01 from that evaluation's emits nothing and *)
(* leaves the gate state unchanged.                                         *)
EvaluationStep == obs'.op \in Handlers /\ obs'.outcome \in {"skipped", "emitted"}

C7_ConsecutiveEvaluations ==
    [][(/\ variant \in {"main", "ceiling"}
        /\ EvaluationStep
        /\ evaluation # None
        /\ Val(evaluation').regime = Val(evaluation).regime
        /\ RLt(RAbs(RSub(Val(evaluation').effective_pct, Val(evaluation).effective_pct)),
               Rat(1, 100))
        /\ Val(evaluation').spy_weight_multiplier = Val(evaluation).spy_weight_multiplier)
       => (obs'.targets = None /\ UNCHANGED Gate)]_vars

(* C7 amended: a rebalance evaluation whose regime is last_regime, whose    *)
(* brake multiplier is last_spy_weight_multiplier and whose effective       *)
(* budget is less than 0.01 from last_effective_pct (the values of the last *)
(* emission) emits nothing and leaves the gate state unchanged.             *)
C7_GateAgainstLastEmission ==
    [][(/\ variant \in {"main", "ceiling"}
        /\ EvaluationStep
        /\ last_effective_pct # None /\ last_spy_weight_multiplier # None
        /\ Val(evaluation').regime = last_regime
        /\ RLt(RAbs(RSub(Val(evaluation').effective_pct, Val(last_effective_pct))),
               Rat(1, 100))
        /\ Val(evaluation').spy_weight_multiplier = Val(last_spy_weight_multiplier))
       => (obs'.targets = None /\ UNCHANGED Gate)]_vars

C7_Witness ==
    /\ variant = "main" /\ obs.op = "Rebalance" /\ obs.outcome = "skipped"
    /\ last_effective_pct # None
    /\ Val(evaluation).effective_pct # Val(last_effective_pct)

(* C8: when the structural weights would use more margin than marginBudget *)
(* = equity * effectivePct, the emitted targets are the uncapped targets   *)
(* scaled by one common factor, and their summed margin usage (sum of      *)
(* |notional| / leverage) equals marginBudget.                             *)
C8_MarginCap ==
    obs.op = "Rebalance" /\ variant = "overlay" =>
        LET w == obs.weights
            t == Val(obs.targets)
            effective_pct == margin_budget_by_regime[regime]
            marginBudget == RMul(RInt(equity), effective_pct)
            uncapped == [k \in DOMAIN w |->
                            RMul(RMul(w[k], marginBudget), RInt(20))]
            wanted == RDiv(RAdd(RAdd(RAbs(uncapped.spy), RAbs(uncapped.tlt)),
                                RAbs(uncapped.gld)), RInt(20))
            notional == [k \in DOMAIN t |-> RMul(t[k], RInt(equity))]
            used == RDiv(RAdd(RAdd(RAbs(notional.spy), RAbs(notional.tlt)),
                              RAbs(notional.gld)), RInt(20))
        IN  RLt(marginBudget, wanted) =>
                /\ used = marginBudget
                /\ \A k \in DOMAIN w :
                      notional[k] = RMul(uncapped[k], RDiv(marginBudget, wanted))

C8_Witness ==
    /\ obs.op = "Rebalance" /\ variant = "overlay" /\ regime = "Stress" /\ equity = 100
    /\ obs.weights = [spy |-> Rat(-1, 2), tlt |-> RInt(1), gld |-> Rat(1, 2)]
    /\ Val(obs.targets) = [spy |-> Rat(-3, 10), tlt |-> Rat(3, 5), gld |-> Rat(3, 10)]

(* C9: a Rebalance invocation made with total equity <= 0, in main.py or    *)
(* ceiling_risk_cap.py, emits no targets and leaves the gate state and      *)
(* last_rebalance_week unchanged, so that a later invocation in the same    *)
(* week can still rebalance.                                                *)
C9_NonPositiveEquityAborts ==
    [][(/\ obs'.op \in Handlers
        /\ equity <= 0
        /\ \/ variant = "main" /\ obs'.op = "Rebalance"
           \/ variant = "ceiling" /\ regime' # regime)
       => (obs'.targets = None /\ UNCHANGED <<Gate, last_rebalance_week>>)]_vars

C9_Witness ==
    /\ variant = "main" /\ obs.op = "Rebalance" /\ obs.outcome = "emitted"
    /\ aborts_this_week > 0

(* C10: every UpdateSignals call of main.py and DCA.py leaves peak_equity   *)
(* no lower than before, and with positive equity it leaves peak_equity >=  *)
(* equity and current_dd = 1 - equity / peak_equity, within [0, 1).         *)
C10_PeakAndDrawdown ==
    [][(variant \in {"main", "dca"} /\ obs'.op \in Handlers)
       => /\ peak_equity' # None
          /\ peak_equity # None => Val(peak_equity') >= Val(peak_equity)
          /\ equity > 0 =>
                /\ Val(peak_equity') >= equity
                /\ current_dd' = RSub(RInt(1), Rat(equity, Val(peak_equity')))
                /\ RLe(RInt(0), current_dd') /\ RLt(current_dd', RInt(1))]_vars

C10_Witness ==
    /\ variant = "main" /\ obs.op \in Handlers
    /\ peak_equity = Some(100) /\ equity = 87 /\ current_dd = Rat(13, 100)

(* C11: with buffer 0.12, target 0.25 and floor 0.20 the risk scale is 1.0 *)
(* for every drawdown <= 0.12, 0.20 for every drawdown >= 0.25 and          *)
(* 1 - ((dd - 0.12) / 0.13) * 0.80 in between (0.60 at 0.185); it lies in   *)
(* [0.20, 1.0] and does not increase with the drawdown.                     *)
C11_RiskScale ==
    obs.op = "RiskScaleFromDrawdown" =>
        LET dd == current_dd
            scale == Val(obs.risk_scale)
        IN  /\ RLe(dd, Rat(12, 100)) => scale = RInt(1)
            /\ RLe(Rat(25, 100), dd) => scale = Rat(20, 100)
            /\ RLt(Rat(12, 100), dd) /\ RLt(dd, Rat(25, 100)) =>
                  scale = RSub(RInt(1),
                               RMul(RDiv(RSub(dd, Rat(12, 100)), Rat(13, 100)),
                                    Rat(80, 100)))
            /\ dd = Rat(185, 1000) => scale = Rat(60, 100)
            /\ RLe(Rat(20, 100), scale) /\ RLe(scale, RInt(1))
            /\ \A more \in Drawdowns :
                  RLe(dd, more) => RLe(RiskScaleOf(variant, more), scale)

C11_Witness ==
    /\ obs.op = "RiskScaleFromDrawdown" /\ variant = "main"
    /\ current_dd = Rat(185, 1000) /\ obs.risk_scale = Some(Rat(60, 100))

(* C12: the effective budget of every rebalance evaluation is at most the  *)
(* regime's margin budget, and in Calm it is at least 0.07, so within       *)
(* [0.07, 0.12], also when the drawdown governor alone would give less.     *)
C12_AllDrawdowns ==
    \A r \in Regimes, dd \in Drawdowns :
        \A pct \in {EffectivePct(r, RiskScaleFromDrawdown(dd)), EffectivePctCeiling(r)} :
            /\ RLe(pct, margin_budget_by_regime[r])
            /\ r = "Calm" => RLe(Rat(7, 100), pct) /\ RLe(pct, Rat(12, 100))

C12_EffectiveBudgetBounds ==
    /\ C12_AllDrawdowns
    /\ variant \in {"main", "ceiling"} /\ evaluation # None =>
          LET e == Val(evaluation)
          IN  /\ RLe(e.effective_pct, margin_budget_by_regime[e.regime])
              /\ e.regime = "Calm" =>
                    RLe(Rat(7, 100), e.effective_pct) /\ RLe(e.effective_pct, Rat(12, 100))

C12_Witness ==
    /\ variant = "main" /\ obs.op = "Rebalance" /\ obs.outcome = "emitted"
    /\ regime = "Calm" /\ current_dd = Rat(20, 100)
    /\ RLt(RMul(Rat(12, 100), RiskScaleFromDrawdown(current_dd)), Rat(7, 100))
    /\ Val(evaluation).effective_pct = Rat(7, 100)

(* C13: in main.py the brake multiplier of a rebalance evaluation is 0.85  *)
(* exactly when the regime is Calm and close > 1.05 * sma200 with sma200 >  *)
(* 0, and 1.0 otherwise; emitted TLT and GLD targets are weight *           *)
(* effective_pct * leverage whether or not the brake is active, and the SPY *)
(* target is that product times the multiplier.                             *)
C13_BrakeOnlySpy ==
    variant = "main" /\ obs.op = "Rebalance" /\ obs.outcome \in {"skipped", "emitted"} =>
        LET e == Val(evaluation)
            long == IF indReady = "all" THEN sma200 ELSE close
            braked == regime = "Calm" /\ long > 0 /\ 100 * close > 105 * long
            w == weights[regime]
            base(x) == RMul(RMul(x, e.effective_pct), RInt(20))
        IN  /\ e.spy_weight_multiplier = IF braked THEN Rat(85, 100) ELSE RInt(1)
            /\ regime # "Calm" => e.spy_weight_multiplier = RInt(1)
            /\ obs.targets # None =>
                  /\ Val(obs.targets).tlt = base(w.tlt)
                  /\ Val(obs.targets).gld = base(w.gld)
                  /\ Val(obs.targets).spy = RMul(base(w.spy), e.spy_weight_multiplier)

C13_Witness ==
    /\ variant = "main" /\ obs.op = "Rebalance" /\ obs.outcome = "emitted"
    /\ regime = "Calm" /\ market = ExtendedBar
    /\ last_spy_weight_multiplier = Some(Rat(85, 100))
    /\ Val(obs.targets) = [spy |-> Rat(561, 500), tlt |-> Rat(21, 25), gld |-> Rat(6, 25)]

(* C14: a handler call made while the close is <= 0 leaves the close       *)
(* window, contents and length, as it was.                                  *)
C14_NonPositiveCloseDropped ==
    [][(obs'.op \in Handlers /\ close <= 0)
       => (close_window' = close_window /\ Len(close_window') = Len(close_window))]_vars

C14_Witness ==
    /\ variant = "main" /\ obs.op = "UpdateSignals" /\ close <= 0
    /\ close_window = SeedCloses(SeedHistory)

(* C15: the close window and the volatility window never hold more than    *)
(* 252 entries; a handler call leaves each window as it was or with one     *)
(* new entry at the end, and when the window was full the oldest entry is   *)
(* gone and the rest keep their order.                                      *)
Pushed(w, x) == IF Len(w) < 252 THEN w \o <<x>> ELSE SubSeq(w, 2, 252) \o <<x>>

C15_WindowsBounded ==
    /\ [](Len(close_window) <= 252 /\ Len(vol_window) <= 252)
    /\ [][obs'.op \in Handlers
          => /\ close_window' \in {close_window, Pushed(close_window, close)}
             /\ vol_window' \in {vol_window, Pushed(vol_window, market.vol20)}]_vars

C15_Witness ==
    /\ variant = "main" /\ obs.op \in Handlers /\ feed = "steady"
    /\ Len(close_window) = 252 /\ close_window[252] = 90 /\ close_window[1] = 100
    /\ Len(vol_window) = 252 /\ vol_window[252] = 18 /\ vol_window[231] = 18
    /\ vol_window[1] = 12

(* C16: in main.py, when only the scheduled callbacks run, each trading    *)
(* day contributes one observation: after day + 1 trading days              *)
(* days_below_sma50 is at most day + 1, and a close window that started     *)
(* empty holds at most day + 1 closes.                                      *)
C16_OneObservationPerDay ==
    variant = "main" /\ extra = 0 =>
        /\ days_below_sma50 <= day + 1
        /\ Len(close_window) < 20 => Len(close_window) <= day + 1

(* C17: a Rebalance invocation of main.py that the week guard suppresses   *)
(* leaves regime, close window, volatility window, days_below_sma50,        *)
(* peak_equity and the gate state as they were.                             *)
C17_SuppressedChangesNothing ==
    [][(variant = "main" /\ obs'.op = "Rebalance" /\ obs'.outcome = "suppressed")
       => UNCHANGED <<regime, close_window, vol_window, days_below_sma50,
                      peak_equity, Gate>>]_vars

(* C18: the configured weights of each regime are non-negative and sum to  *)
(* at most 1, and every target set emitted by Rebalance has summed          *)
(* target_fraction / leverage <= effective_pct <= the regime's budget.      *)
C18_WeightsWithinOne ==
    \A r \in Regimes :
        /\ \A k \in DOMAIN weights[r] : RLe(RInt(0), weights[r][k])
        /\ RLe(RAdd(RAdd(weights[r].spy, weights[r].tlt), weights[r].gld), RInt(1))

C18_MarginWithinBudget ==
    /\ C18_WeightsWithinOne
    /\ variant \in {"main", "ceiling"} /\ obs.op \in Handlers /\ obs.targets # None =>
          LET t == Val(obs.targets)
              deployed == RDiv(RAdd(RAdd(t.spy, t.tlt), t.gld), RInt(20))
              effective_pct == Val(last_effective_pct)
          IN  /\ RLe(deployed, effective_pct)
              /\ RLe(effective_pct, margin_budget_by_regime[regime])

C18_Witness ==
    /\ variant = "main" /\ obs.op = "Rebalance" /\ obs.targets # None
    /\ regime = "Panic" /\ last_effective_pct = Some(Rat(4, 100))
    /\ Val(obs.targets) = [spy |-> Rat(4, 25), tlt |-> Rat(6, 25), gld |-> Rat(2, 25)]

(* C19: a rebalance evaluation of main.py that the change gate skips sets  *)
(* last_rebalance_week to the current week, and a Rebalance invoked while   *)
(* last_rebalance_week is the current week emits no targets and keeps the   *)
(* marker, also when the regime has changed since.                          *)
C19_SkipMarksWeek ==
    [][(variant = "main" /\ obs'.op = "Rebalance")
       => /\ obs'.outcome = "skipped" => last_rebalance_week' = WeekOfYear(day)
          /\ last_rebalance_week = WeekOfYear(day) =>
                obs'.targets = None /\ UNCHANGED last_rebalance_week]_vars

C19_Witness ==
    /\ variant = "main" /\ obs.op = "Rebalance" /\ obs.outcome = "suppressed"
    /\ emits_this_week = 0 /\ regime # last_regime

(* C20: right after every Rebalance of main.py that passes the week guard  *)
(* and the equity check, emitted or gate-skipped, last_regime is the        *)
(* regime, last_spy_weight_multiplier is the current brake multiplier and   *)
(* the effective budget is less than 0.01 from last_effective_pct.          *)
C20_GateStateTracksPolicy ==
    variant = "main" /\ obs.op = "Rebalance" /\ obs.outcome \in {"skipped", "emitted"} =>
        LET e == Val(evaluation)
        IN  /\ e.regime = regime /\ last_regime = regime
            /\ last_spy_weight_multiplier = Some(e.spy_weight_multiplier)
            /\ last_effective_pct # None
            /\ RLt(RAbs(RSub(e.effective_pct, Val(last_effective_pct))), Rat(1, 100))

C20_Witness ==
    /\ variant = "main" /\ obs.op = "Rebalance" /\ obs.outcome = "emitted"
    /\ peak_equity = Some(100) /\ equity = 86
    /\ last_effective_pct = Some(Rat(171, 1625))
    /\ emits_this_week = 1 /\ day = 3

(* C22: re-risking is slow.  ClampTier applied with the candidate Calm     *)
(* takes Panic to Stress, Stress to Alert and Alert to Calm, and no two     *)
(* candidates take Panic to Calm.  In main.py the regime starts as Calm, it *)
(* changes only in a call that classifies, such a call lowers it by at most *)
(* one tier, and with the candidate Calm by exactly one tier.               *)
C22_ThreeCallsFromPanic ==
    /\ ClampTier("Panic", "Calm") = "Stress"
    /\ ClampTier(ClampTier("Panic", "Calm"), "Calm") = "Alert"
    /\ ClampTier(ClampTier(ClampTier("Panic", "Calm"), "Calm"), "Calm") = "Calm"
    /\ \A p1 \in Regimes : ClampTier("Panic", p1) # "Calm"
    /\ \A p1 \in Regimes, p2 \in Regimes :
           ClampTier(ClampTier("Panic", p1), p2) # "Calm"

(* Three classifications take any regime to any other *)
C22_NoTerminalRegime ==
    \A c \in Regimes, t \in Regimes :
        \E p1 \in Regimes, p2 \in Regimes, p3 \in Regimes :
            ClampTier(ClampTier(ClampTier(c, p1), p2), p3) = t

C22_SlowReRisk ==
    /\ [](/\ C22_ThreeCallsFromPanic
          /\ C22_NoTerminalRegime
          /\ obs.op = "Initialize" => regime = "Calm")
    /\ [][variant = "main" =>
             /\ regime' # regime => obs'.op \in Handlers /\ obs'.evaluated
             /\ Index(regime') >= Index(regime) - 1
             /\ (obs'.op \in Handlers /\ obs'.evaluated
                    /\ obs'.new_regime = Some("Calm") /\ regime # "Calm")
                 => regime' = order[Index(regime) - 1]]_vars

(* Calm reached again on the second Friday through Panic, Stress and Alert: *)
(* with no off-schedule invocation only three calls precede the second      *)
(* Friday, too few for the Stress rule, so Stress at its open came from     *)
(* Panic.                                                                   *)
C22_Witness ==
    /\ variant = "main" /\ extra = 0 /\ day = 2
    /\ obs.op = "Rebalance" /\ obs.evaluated
    /\ regime_at_open = "Stress" /\ obs.before = "Alert"
    /\ obs.new_regime = Some("Calm") /\ regime = "Calm"

(* C23: a daily UpdateSignals call of main.py made while the close is <= 0 *)
(* is dropped as a whole: it leaves the close window, the volatility        *)
(* window, days_below_sma50 and the regime as they were.                    *)
C23_NonPositiveCloseDropsCall ==
    [][(variant = "main" /\ obs'.op = "UpdateSignals" /\ close <= 0)
       => /\ close_window' = close_window
          /\ vol_window' = vol_window
          /\ days_below_sma50' = days_below_sma50
          /\ regime' = regime]_vars

(* C24: in ceiling_risk_cap.py, when equity is positive at every call,     *)
(* after every UpdateSignals call last_regime is the regime and             *)
(* last_effective_pct is the regime's margin budget, and a call that        *)
(* changes the regime emits targets.                                        *)
EquityAlwaysPositive == \A e \in Equities(feed) : e > 0

C24_TargetsTrackRegime ==
    (variant = "ceiling" /\ EquityAlwaysPositive /\ obs.op = "UpdateSignals") =>
        /\ last_regime = regime
        /\ last_effective_pct = Some(margin_budget_by_regime[regime])
        /\ obs.before # regime => obs.outcome = "emitted" /\ obs.targets # None

-----------------------------------------------------------------------------
Next ==
    \/ NewDay
    \/ UpdateSignals
    \/ Rebalance
    \/ UpdateSignalsCeiling
    \/ UpdateSignalsDCA
    \/ RebalanceDCA

Spec == Init /\ [][Next]_vars

-----------------------------------------------------------------------------
(* main.py over more than a year of weekly Rebalance invocations, on the   *)
(* dormant input profile.                                                   *)

InitCalendar ==
    /\ variant = "main"
    /\ feed = "dormant"
    /\ day = 0
    /\ market \in Markets("dormant")
    /\ indReady \in Readiness("dormant")
    /\ equity \in Equities("dormant")
    /\ \E n \in SeedLengths("dormant") :
          /\ close_window = SeedCloses(n)
          /\ vol_window = SeedVols(n)
    /\ days_below_sma50 = 0
    /\ regime = "Calm"
    /\ peak_equity = None
    /\ current_dd = RInt(0)
    /\ last_rebalance_week = InitialWeek
    /\ last_regime = "Calm"
    /\ last_effective_pct = None
    /\ last_spy_weight_multiplier = None
    /\ halted = FALSE
    /\ updated = FALSE
    /\ rebalances = 0
    /\ extra = 0
    /\ regime_at_open = "Calm"
    /\ emits_this_week = 0
    /\ aborts_this_week = 0
    /\ evaluation = None
    /\ obs = [op |-> "Initialize", before |-> "Calm", evaluated |-> FALSE,
              vol_ratio |-> None, dd20 |-> None, new_regime |-> None,
              outcome |-> "none", targets |-> None]

NextCalendar ==
    \/ NewDay
    \/ UpdateSignals
    \/ Rebalance

SpecCalendar == InitCalendar /\ [][NextCalendar]_vars

(* C21: a scheduled Friday Rebalance of main.py in a calendar week in which *)
(* no Rebalance has been invoked before is never returned early by the     *)
(* comparison week == last_rebalance_week, whatever weeks before it were    *)
(* aborted for non-positive equity.                                         *)
C21_GuardOnlyWithinWeek ==
    [][(variant = "main" /\ obs'.op = "Rebalance" /\ extra = 0 /\ OnSchedule
            /\ equity > 0)
       => obs'.outcome # "suppressed"]_vars

====
